---- MODULE Spec2Model ----
\* Aho-Corasick matcher of justecorruptio/ahocorasick.
\*
\* Two of the repository's implementations are modelled:
\*   "ptr"  src/ahocorasick.go: nodes linked by pointers, a per-node fails
\*          table, dedup through Matcher.counter / node.counter;
\*   "tbl"  src/unnamed/part_001 lines 288-541: nodes addressed by int32 ids
\*          into Matcher.table (0 = no node, 1 = root), dedup through a
\*          per-call marks map, no fails table.
\* A node is identified by its position in the sequence of nodes: for "tbl"
\* this is the table id, for "ptr" it stands for the pointer (0 is nil,
\* 1 is m.root).  Bytes are drawn from a small alphabet instead of 0..255.
\* Dictionary indices are 0-based as in Go: pattern i is dictionary[i + 1].
EXTENDS Integers, Sequences, FiniteSets, TLC

VARIABLES dictionary, variant, nodes, counter, ncounter, proc, calls

vars == <<dictionary, variant, nodes, counter, ncounter, proc, calls>>

----------------------------------------------------------------------------
\* Bounds of the model.

\* The byte values 0 .. NumBytes - 1 stand for the 256 values of a byte.
NumBytes == 2
\* A dictionary has at most MaxPatterns patterns of at most MaxPatLen bytes
\* each and of at most MaxDictBytes bytes together.
MaxPatterns == 3
MaxPatLen == 3
MaxDictBytes == 6
\* An input has at most MaxInLen bytes; at most MaxCalls calls are made.
MaxInLen == 4
MaxCalls == 2
\* The same, for the calls whose steps interleave.
ConcPatterns == 2
ConcPatLen == 2
ConcInLen == 3

Bytes == 0 .. (NumBytes - 1)

RECURSIVE SeqsUpTo(_)
SeqsUpTo(k) ==
  IF k = 0 THEN {<<>>}
  ELSE LET S == SeqsUpTo(k - 1)
       IN S \cup {Append(s, b) : s \in {t \in S : Len(t) = k - 1}, b \in Bytes}

RECURSIVE DictsUpTo(_, _)
DictsUpTo(P, k) ==
  IF k = 0 THEN {<<>>}
  ELSE LET S == DictsUpTo(P, k - 1)
       IN S \cup {Append(d, p) : d \in {t \in S : Len(t) = k - 1}, p \in P}

RECURSIVE TotalBytes(_)
TotalBytes(d) == IF d = <<>> THEN 0 ELSE Len(Head(d)) + TotalBytes(Tail(d))

Dicts ==
  {d \in DictsUpTo(SeqsUpTo(MaxPatLen), MaxPatterns) :
     TotalBytes(d) <= MaxDictBytes}
Inputs == SeqsUpTo(MaxInLen)
ConcDicts == DictsUpTo(SeqsUpTo(ConcPatLen), ConcPatterns)
ConcInputs == SeqsUpTo(ConcInLen)

----------------------------------------------------------------------------
\* The node structure and the trie, mark-set variant ("tbl").

NoChild == [x \in Bytes |-> 0]

\* m.root = &node{}: every field zero.
RootNodeT ==
  [b |-> <<>>, output |-> FALSE, index |-> 0, child |-> NoChild,
   suffix |-> 0, fail |-> 0]

\* c = &node{}; c.b = path; if len(path) == 1 { c.fail = 1 }; c.suffix = 1
NewNodeT(path) ==
  [b |-> path, output |-> FALSE, index |-> 0, child |-> NoChild,
   suffix |-> 1, fail |-> IF Len(path) = 1 THEN 1 ELSE 0]

\* n.getChild(b) on the node with id n of table t: 0 when there is no child.
getChildT(t, n, b) == t[n].child[b]

\* b[j:] of Go, j 0-based.
SliceFrom(b, j) == SubSeq(b, j + 1, Len(b))

\* findBlice: follow b from the root; 0 as soon as an edge is missing.
RECURSIVE findBliceFromT(_, _, _)
findBliceFromT(t, i, b) ==
  IF i # 0 /\ Len(b) > 0
  THEN findBliceFromT(t, getChildT(t, i, b[1]), Tail(b))
  ELSE i

findBliceT(t, b) == findBliceFromT(t, 1, b)

\* Inner loop of the insertion: bytes k.. of blice from node n.
\* Returns the table and the node the blice ends at.
RECURSIVE insertBytesT(_, _, _, _)
insertBytesT(t, n, blice, k) ==
  IF k > Len(blice) THEN [t |-> t, n |-> n]
  ELSE LET b == blice[k]
           c == getChildT(t, n, b)
           id == Len(t) + 1
       IN IF c = 0
          THEN insertBytesT(
                 Append([t EXCEPT ![n].child[b] = id],
                        NewNodeT(SubSeq(blice, 1, k))),
                 id, blice, k + 1)
          ELSE insertBytesT(t, c, blice, k + 1)

\* Outer loop of the insertion: dictionary entries i.. (1-based position i
\* holds Go index i - 1); n.output = true; n.index = i.
RECURSIVE insertAllT(_, _, _)
insertAllT(t, dict, i) ==
  IF i > Len(dict) THEN t
  ELSE LET r == insertBytesT(t, 1, dict[i], 1)
       IN insertAllT([r.t EXCEPT ![r.n].output = TRUE, ![r.n].index = i - 1],
                     dict, i + 1)

\* for j := 1; j < len(c.b); j++ { c.fail = findBlice(c.b[j:]); if c.fail != 0 { break } }
\* cur is the value c.fail holds when the loop is at j.
RECURSIVE failLoopT(_, _, _, _)
failLoopT(t, cur, b, j) ==
  IF j >= Len(b) THEN cur
  ELSE LET r == findBliceT(t, SliceFrom(b, j))
       IN IF r # 0 THEN r ELSE failLoopT(t, r, b, j + 1)

\* for j := 1; j < len(c.b); j++ { si := findBlice(c.b[j:]);
\*   if si != 0 && table[si].output { c.suffix = si; break } }
RECURSIVE suffixLoopT(_, _, _, _)
suffixLoopT(t, cur, b, j) ==
  IF j >= Len(b) THEN cur
  ELSE LET si == findBliceT(t, SliceFrom(b, j))
       IN IF si # 0 /\ t[si].output THEN si ELSE suffixLoopT(t, cur, b, j + 1)

\* The body of the breadth-first loop for one child c.
linkNodeT(t, c) ==
  LET f0 == failLoopT(t, t[c].fail, t[c].b, 1)
      f1 == IF f0 = 0 THEN 1 ELSE f0
  IN [t EXCEPT ![c].fail = f1,
               ![c].suffix = suffixLoopT(t, t[c].suffix, t[c].b, 1)]

\* The children of node n in increasing byte order.
RECURSIVE childrenFromT(_, _, _)
childrenFromT(t, n, i) ==
  IF i >= NumBytes THEN <<>>
  ELSE LET c == getChildT(t, n, i)
       IN (IF c # 0 THEN <<c>> ELSE <<>>) \o childrenFromT(t, n, i + 1)

RECURSIVE linkAllT(_, _)
linkAllT(t, cs) ==
  IF cs = <<>> THEN t ELSE linkAllT(linkNodeT(t, Head(cs)), Tail(cs))

\* The breadth-first sweep: l is the list of nodes still to visit.
RECURSIVE bfsT(_, _)
bfsT(t, l) ==
  IF l = <<>> THEN t
  ELSE LET cs == childrenFromT(t, Head(l), 0)
       IN bfsT(linkAllT(t, cs), Tail(l) \o cs)

buildTrieT(dict) == bfsT(insertAllT(<<RootNodeT>>, dict, 1), <<1>>)

----------------------------------------------------------------------------
\* The node structure and the trie, pointer variant ("ptr").  The counter
\* field of a node is kept in the variable ncounter.

\* m.root = &node{root: true}
RootNode ==
  [root |-> TRUE, b |-> <<>>, output |-> FALSE, index |-> 0,
   child |-> NoChild, fails |-> NoChild, suffix |-> 0, fail |-> 0]

\* c = &node{}; c.b = path; if len(path) == 1 { c.fail = m.root }; c.suffix = m.root
NewNode(path) ==
  [root |-> FALSE, b |-> path, output |-> FALSE, index |-> 0,
   child |-> NoChild, fails |-> NoChild, suffix |-> 1,
   fail |-> IF Len(path) = 1 THEN 1 ELSE 0]

\* findBlice: for n != nil && len(b) > 0 { n = n.child[b[0]]; b = b[1:] }
RECURSIVE findBliceFrom(_, _, _)
findBliceFrom(t, n, b) ==
  IF n # 0 /\ Len(b) > 0
  THEN findBliceFrom(t, t[n].child[b[1]], Tail(b))
  ELSE n

findBlice(t, b) == findBliceFrom(t, 1, b)

\* Inner loop of the insertion: bytes k.. of blice from node n.
RECURSIVE insertBytes(_, _, _, _)
insertBytes(t, n, blice, k) ==
  IF k > Len(blice) THEN [t |-> t, n |-> n]
  ELSE LET b == blice[k]
           c == t[n].child[b]
           new == Len(t) + 1
       IN IF c = 0
          THEN insertBytes(
                 Append([t EXCEPT ![n].child[b] = new],
                        NewNode(SubSeq(blice, 1, k))),
                 new, blice, k + 1)
          ELSE insertBytes(t, c, blice, k + 1)

\* Outer loop of the insertion; n.output = true; n.index = i.
RECURSIVE insertAll(_, _, _)
insertAll(t, dict, i) ==
  IF i > Len(dict) THEN t
  ELSE LET r == insertBytes(t, 1, dict[i], 1)
       IN insertAll([r.t EXCEPT ![r.n].output = TRUE, ![r.n].index = i - 1],
                    dict, i + 1)

\* for j := 1; j < len(c.b); j++ { c.fail = findBlice(c.b[j:]); if c.fail != nil { break } }
RECURSIVE failLoop(_, _, _, _)
failLoop(t, cur, b, j) ==
  IF j >= Len(b) THEN cur
  ELSE LET r == findBlice(t, SliceFrom(b, j))
       IN IF r # 0 THEN r ELSE failLoop(t, r, b, j + 1)

\* Mutant of suffixLoop: "if s != nil" without "&& s.output".
RECURSIVE suffixLoop_AnyNode(_, _, _, _)
suffixLoop_AnyNode(t, cur, b, j) ==
  IF j >= Len(b) THEN cur
  ELSE LET s == findBlice(t, SliceFrom(b, j))
       IN IF s # 0 THEN s ELSE suffixLoop_AnyNode(t, cur, b, j + 1)

\* for j := 1; j < len(c.b); j++ { s := findBlice(c.b[j:]);
\*   if s != nil && s.output { c.suffix = s; break } }
RECURSIVE suffixLoop(_, _, _, _)
suffixLoop(t, cur, b, j) ==
  IF j >= Len(b) THEN cur
  ELSE LET s == findBlice(t, SliceFrom(b, j))
       IN IF s # 0 /\ t[s].output THEN s ELSE suffixLoop(t, cur, b, j + 1)

\* The body of the breadth-first loop for one child c.
linkNode(t, c) ==
  LET f0 == failLoop(t, t[c].fail, t[c].b, 1)
      f1 == IF f0 = 0 THEN 1 ELSE f0
  IN [t EXCEPT ![c].fail = f1,
               ![c].suffix = suffixLoop(t, t[c].suffix, t[c].b, 1)]

RECURSIVE childrenFrom(_, _, _)
childrenFrom(t, n, i) ==
  IF i >= NumBytes THEN <<>>
  ELSE LET c == t[n].child[i]
       IN (IF c # 0 THEN <<c>> ELSE <<>>) \o childrenFrom(t, n, i + 1)

RECURSIVE linkAll(_, _)
linkAll(t, cs) ==
  IF cs = <<>> THEN t ELSE linkAll(linkNode(t, Head(cs)), Tail(cs))

RECURSIVE bfs(_, _)
bfs(t, l) ==
  IF l = <<>> THEN t
  ELSE LET cs == childrenFrom(t, Head(l), 0)
       IN bfs(linkAll(t, cs), Tail(l) \o cs)

\* for n.child[c] == nil && !n.root { n = n.fail }
RECURSIVE failTarget(_, _, _)
failTarget(t, n, c) ==
  IF t[n].child[c] = 0 /\ ~t[n].root THEN failTarget(t, t[n].fail, c) ELSE n

\* The last loop of buildTrie: nodes[i].fails[c] for every node and byte.
fillFails(t) ==
  [i \in 1 .. Len(t) |->
     [t[i] EXCEPT !.fails = [c \in Bytes |-> failTarget(t, i, c)]]]

buildTrie(dict) == fillFails(bfs(insertAll(<<RootNode>>, dict, 1), <<1>>))

\* NewMatcher: the nodes of a new Matcher for dictionary d.
NewMatcher(v, d) == IF v = "tbl" THEN buildTrieT(d) ELSE buildTrie(d)

----------------------------------------------------------------------------
\* Match.  A call is a process with a position (pc) in the code of Match and
\* the locals of the call; a configuration c joins the locals of one call
\* (c.l) with the fields Match shares between calls: Matcher.counter
\* (c.counter) and the counter field of every node (c.nc).
\*   l.in, l.pos   the input and the number of bytes consumed
\*   l.n, l.f      the current node and the node of the suffix walk
\*   l.hits        the slice built so far; at "done", the slice returned
\*   l.marks       the marks map ("tbl" only)

Procs == {1, 2}

NoCall ==
  [pc |-> "idle", in |-> <<>>, pos |-> 0, n |-> 0, f |-> 0,
   hits |-> <<>>, marks |-> {}]

\* return hits
Return(l) ==
  [pc |-> "done", in |-> l.in, pos |-> l.pos, n |-> 0, f |-> 0,
   hits |-> l.hits, marks |-> {}]

\* Mutant of MatchEnter: "m.counter = 1" in place of "m.counter += 1".
MatchEnter_SetOne(c, S) ==
  [c EXCEPT !.counter = 1,
            !.l = [pc |-> "loop", in |-> S, pos |-> 0, n |-> 1, f |-> 0,
                   hits |-> <<>>, marks |-> {}]]

\* "ptr" lines 197-200: m.counter += 1; var hits []int; n := m.root
MatchEnter(c, S) ==
  [c EXCEPT !.counter = @ + 1,
            !.l = [pc |-> "loop", in |-> S, pos |-> 0, n |-> 1, f |-> 0,
                   hits |-> <<>>, marks |-> {}]]

\* "ptr" lines 202-211: the next byte, the fails step and the child step.
MatchLoop(c) ==
  LET l == c.l IN
  IF l.pos >= Len(l.in) THEN [c EXCEPT !.l = Return(l)]
  ELSE LET b == l.in[l.pos + 1]
           n1 == IF ~nodes[l.n].root /\ nodes[l.n].child[b] = 0
                 THEN nodes[l.n].fails[b] ELSE l.n
           f == nodes[n1].child[b]
       IN IF f # 0
          THEN [c EXCEPT !.l.pos = @ + 1, !.l.n = f, !.l.f = f, !.l.pc = "chk"]
          ELSE [c EXCEPT !.l.pos = @ + 1, !.l.n = n1]

\* "ptr" lines 213-214: if f.output && f.counter != m.counter { hits = append(hits, f.index)
MatchChk(c) ==
  LET f == c.l.f IN
  IF nodes[f].output /\ c.nc[f] # c.counter
  THEN [c EXCEPT !.l.hits = Append(@, nodes[f].index), !.l.pc = "mark"]
  ELSE [c EXCEPT !.l.pc = "walk"]

\* Mutant of MatchMark: the report is not recorded in f.counter.
MatchMark_Skip(c) == [c EXCEPT !.l.pc = "walk"]

\* "ptr" line 215: f.counter = m.counter
MatchMark(c) == [c EXCEPT !.nc[c.l.f] = c.counter, !.l.pc = "walk"]

\* Mutant of MatchWalk: the suffix chain is not walked.
MatchWalk_None(c) == [c EXCEPT !.l.pc = "loop"]

\* "ptr" lines 218-221 and 223-229: one turn of the suffix walk.
MatchWalk(c) ==
  LET s == nodes[c.l.f].suffix IN
  IF ~nodes[s].root
  THEN IF c.nc[s] # c.counter
       THEN [c EXCEPT !.l.f = s, !.l.hits = Append(@, nodes[s].index),
                      !.l.pc = "wmark"]
       ELSE [c EXCEPT !.l.f = s, !.l.pc = "loop"]
  ELSE [c EXCEPT !.l.pc = "loop"]

\* "ptr" line 222: f.counter = m.counter
MatchWMark(c) == [c EXCEPT !.nc[c.l.f] = c.counter, !.l.pc = "walk"]

\* "tbl" lines 496-501: marks := make(map); var hits []int; ni := 1
MatchEnterT(c, S) ==
  [c EXCEPT !.l = [pc |-> "loop", in |-> S, pos |-> 0, n |-> 1, f |-> 0,
                   hits |-> <<>>, marks |-> {}]]

\* "tbl" lines 503-513: the next byte, the fail step and the child step.
MatchLoopT(c) ==
  LET l == c.l IN
  IF l.pos >= Len(l.in) THEN [c EXCEPT !.l = Return(l)]
  ELSE LET b == l.in[l.pos + 1]
           n1 == IF l.n # 1 /\ getChildT(nodes, l.n, b) = 0
                 THEN nodes[l.n].fail ELSE l.n
           fi == getChildT(nodes, n1, b)
       IN IF fi # 0
          THEN [c EXCEPT !.l.pos = @ + 1, !.l.n = fi, !.l.f = fi, !.l.pc = "chk"]
          ELSE [c EXCEPT !.l.pos = @ + 1, !.l.n = n1]

\* Mutant of MatchChkT: the mark is kept on the node, not in the call's map.
MatchChkT_Shared(c) ==
  LET fi == c.l.f
      marked == c.nc[fi] = 1
  IN IF nodes[fi].output /\ ~marked
     THEN [c EXCEPT !.l.hits = Append(@, nodes[fi].index),
                    !.l.marks = @ \cup {fi}, !.nc[fi] = 1, !.l.pc = "walk"]
     ELSE [c EXCEPT !.l.pc = "walk"]

\* "tbl" lines 515-519: report the node reached unless it is marked.
MatchChkT(c) ==
  LET fi == c.l.f
      marked == fi \in c.l.marks
  IN IF nodes[fi].output /\ ~marked
     THEN [c EXCEPT !.l.hits = Append(@, nodes[fi].index),
                    !.l.marks = @ \cup {fi}, !.l.pc = "walk"]
     ELSE [c EXCEPT !.l.pc = "walk"]

\* Mutant of MatchWalkT: the walk stops after the first node of the chain.
MatchWalkT_OneTurn(c) ==
  LET fi == nodes[c.l.f].suffix IN
  IF fi # 1 /\ fi \notin c.l.marks
  THEN [c EXCEPT !.l.f = fi, !.l.hits = Append(@, nodes[fi].index),
                 !.l.marks = @ \cup {fi}, !.l.pc = "loop"]
  ELSE [c EXCEPT !.l.pc = "loop"]

\* "tbl" lines 521-536: one turn of the suffix walk.
MatchWalkT(c) ==
  LET fi == nodes[c.l.f].suffix IN
  IF fi # 1
  THEN IF fi \notin c.l.marks
       THEN [c EXCEPT !.l.f = fi, !.l.hits = Append(@, nodes[fi].index),
                      !.l.marks = @ \cup {fi}]
       ELSE [c EXCEPT !.l.f = fi, !.l.pc = "loop"]
  ELSE [c EXCEPT !.l.pc = "loop"]

\* One step of a call in configuration c, by its position.
MatchStep(c) ==
  IF variant = "tbl"
  THEN CASE c.l.pc = "loop" -> MatchLoopT(c)
         [] c.l.pc = "chk" -> MatchChkT(c)
         [] c.l.pc = "walk" -> MatchWalkT(c)
  ELSE CASE c.l.pc = "loop" -> MatchLoop(c)
         [] c.l.pc = "chk" -> MatchChk(c)
         [] c.l.pc = "mark" -> MatchMark(c)
         [] c.l.pc = "walk" -> MatchWalk(c)
         [] c.l.pc = "wmark" -> MatchWMark(c)

RECURSIVE MatchRun(_)
MatchRun(c) == IF c.l.pc = "done" THEN c ELSE MatchRun(MatchStep(c))

\* The configuration of a Matcher on which Match was never called.
FreshConf ==
  [l |-> NoCall, counter |-> 0, nc |-> [i \in 1 .. Len(nodes) |-> 0]]

\* m.Match(S) called alone on a new Matcher for the dictionary.
MatchAlone(S) ==
  MatchRun(IF variant = "tbl" THEN MatchEnterT(FreshConf, S)
           ELSE MatchEnter(FreshConf, S)).l.hits

----------------------------------------------------------------------------
\* The state machine.

Conf(p) == [l |-> proc[p], counter |-> counter, nc |-> ncounter]

Apply(p, c) ==
  /\ proc' = [proc EXCEPT ![p] = c.l]
  /\ counter' = c.counter
  /\ ncounter' = c.nc
  /\ UNCHANGED <<dictionary, variant, nodes>>

InitWith(V, D) ==
  /\ variant \in V
  /\ dictionary \in D
  /\ nodes = NewMatcher(variant, dictionary)
  /\ counter = 0
  /\ ncounter = [i \in 1 .. Len(nodes) |-> 0]
  /\ proc = [p \in Procs |-> NoCall]
  /\ calls = 0

CanCall(p) == proc[p].pc \in {"idle", "done"} /\ calls < MaxCalls

Call(p, In) ==
  /\ variant = "ptr" /\ CanCall(p)
  /\ \E S \in In : Apply(p, MatchEnter(Conf(p), S))
  /\ calls' = calls + 1

Loop(p) ==
  /\ variant = "ptr" /\ proc[p].pc = "loop"
  /\ Apply(p, MatchLoop(Conf(p))) /\ UNCHANGED calls

Chk(p) ==
  /\ variant = "ptr" /\ proc[p].pc = "chk"
  /\ Apply(p, MatchChk(Conf(p))) /\ UNCHANGED calls

Mark(p) ==
  /\ variant = "ptr" /\ proc[p].pc = "mark"
  /\ Apply(p, MatchMark(Conf(p))) /\ UNCHANGED calls

Walk(p) ==
  /\ variant = "ptr" /\ proc[p].pc = "walk"
  /\ Apply(p, MatchWalk(Conf(p))) /\ UNCHANGED calls

WMark(p) ==
  /\ variant = "ptr" /\ proc[p].pc = "wmark"
  /\ Apply(p, MatchWMark(Conf(p))) /\ UNCHANGED calls

CallT(p, In) ==
  /\ variant = "tbl" /\ CanCall(p)
  /\ \E S \in In : Apply(p, MatchEnterT(Conf(p), S))
  /\ calls' = calls + 1

LoopT(p) ==
  /\ variant = "tbl" /\ proc[p].pc = "loop"
  /\ Apply(p, MatchLoopT(Conf(p))) /\ UNCHANGED calls

ChkT(p) ==
  /\ variant = "tbl" /\ proc[p].pc = "chk"
  /\ Apply(p, MatchChkT(Conf(p))) /\ UNCHANGED calls

WalkT(p) ==
  /\ variant = "tbl" /\ proc[p].pc = "walk"
  /\ Apply(p, MatchWalkT(Conf(p))) /\ UNCHANGED calls

\* Calls made one after another by one caller, on either variant.
Init == InitWith({"ptr", "tbl"}, Dicts)

Next ==
  \/ Call(1, Inputs)
  \/ Loop(1)
  \/ Chk(1)
  \/ Mark(1)
  \/ Walk(1)
  \/ WMark(1)
  \/ CallT(1, Inputs)
  \/ LoopT(1)
  \/ ChkT(1)
  \/ WalkT(1)

Spec == Init /\ [][Next]_vars

\* Calls of the mark-set variant made by two callers whose steps interleave.
InitConc == InitWith({"tbl"}, ConcDicts)

NextConc ==
  \E p \in Procs :
    \/ CallT(p, ConcInputs)
    \/ LoopT(p)
    \/ ChkT(p)
    \/ WalkT(p)

SpecConc == InitConc /\ [][NextConc]_vars

\* Calls of the pointer variant made by two callers whose steps interleave.
\* Match takes no lock, so the reads and writes of Matcher.counter and of
\* node.counter of the two calls race; the steps below each read or write
\* them once and interleave in every order ("m.counter += 1" is one step:
\* splitting it only adds outcomes).
InitConcP == InitWith({"ptr"}, ConcDicts)

NextConcP ==
  \E p \in Procs :
    \/ Call(p, ConcInputs)
    \/ Loop(p)
    \/ Chk(p)
    \/ Mark(p)
    \/ Walk(p)
    \/ WMark(p)

SpecConcP == InitConcP /\ [][NextConcP]_vars

----------------------------------------------------------------------------
\* Vocabulary of the properties.

\* p occurs in S as a contiguous substring.
IsSubstring(p, S) ==
  \E i \in 0 .. (Len(S) - Len(p)) : SubSeq(S, i + 1, i + Len(p)) = p

\* The number of positions of S at which p occurs.
Occurrences(p, S) ==
  Cardinality({i \in 0 .. (Len(S) - Len(p)) : SubSeq(S, i + 1, i + Len(p)) = p})

\* q is the start of some pattern of the dictionary: a path of the trie.
IsTriePath(q) ==
  \E i \in DOMAIN dictionary :
    Len(q) <= Len(dictionary[i]) /\ SubSeq(dictionary[i], 1, Len(q)) = q

IsSuffix(q, S) == Len(q) <= Len(S) /\ SubSeq(S, Len(S) - Len(q) + 1, Len(S)) = q

NonEmptyPatterns == \A i \in DOMAIN dictionary : dictionary[i] # <<>>

\* The call of process p has returned; its result and its input.
Returned(p) == proc[p].pc = "done"
Hits(p) == {proc[p].hits[k] : k \in DOMAIN proc[p].hits}
PatternsHit(p) ==
  {dictionary[h + 1] : h \in {x \in Hits(p) : x + 1 \in DOMAIN dictionary}}
PatternsIn(S) ==
  {dictionary[i] : i \in {j \in DOMAIN dictionary : IsSubstring(dictionary[j], S)}}

\* Node g is marked as reported for the call of process p.
Reported(p, g) ==
  IF variant = "tbl" THEN g \in proc[p].marks
  ELSE counter > 0 /\ ncounter[g] = counter

\* The non-root nodes on the suffix chain of node g.
RECURSIVE SuffixChain(_)
SuffixChain(g) ==
  LET s == nodes[g].suffix
  IN IF s = 0 \/ s = 1 THEN {} ELSE {s} \cup SuffixChain(s)

ChainReported(p, g) == \A h \in SuffixChain(g) : Reported(p, h)

----------------------------------------------------------------------------
\* C1: mark-set variant: every non-empty pattern of the dictionary that occurs
\* in the input is reported by Match (the result holds an index of it).
C1_Complete ==
  (variant = "tbl" /\ Returned(1) /\ NonEmptyPatterns)
    => PatternsIn(proc[1].in) \subseteq PatternsHit(1)

\* C2: mark-set variant: every index Match returns is an index of the
\* dictionary whose pattern occurs in the input.
C2_Sound ==
  (variant = "tbl" /\ Returned(1))
    => \A h \in Hits(1) :
         /\ h + 1 \in DOMAIN dictionary
         /\ IsSubstring(dictionary[h + 1], proc[1].in)

\* C3: pointer variant, dictionary of non-empty patterns: the patterns of the
\* indices Match returns are exactly the patterns that occur in the input.
C3_Exact ==
  (variant = "ptr" /\ Returned(1) /\ NonEmptyPatterns)
    => /\ \A h \in Hits(1) : h + 1 \in DOMAIN dictionary
       /\ PatternsHit(1) = PatternsIn(proc[1].in)

\* C3 witness: three patterns, one a strict suffix of another and two of them
\* overlapping in the input, all found.
C3_Witness ==
  /\ variant = "ptr" /\ Returned(1) /\ NonEmptyPatterns
  /\ Len(dictionary) = 3
  /\ Cardinality(PatternsHit(1)) = 3
  /\ \E i, j \in DOMAIN dictionary :
       /\ Len(dictionary[i]) < Len(dictionary[j])
       /\ IsSuffix(dictionary[i], dictionary[j])
  /\ \E i \in DOMAIN dictionary : Occurrences(dictionary[i], proc[1].in) >= 2

\* C4: the slice one call returns holds no index twice (both variants).
C4_AtMostOnce ==
  Returned(1)
    => \A j, k \in DOMAIN proc[1].hits :
         j # k => proc[1].hits[j] # proc[1].hits[k]

\* C4 witness: a returned call whose input holds a reported pattern twice,
\* on a Matcher whose counters an earlier call has used.
C4_Witness ==
  /\ Returned(1) /\ variant = "ptr" /\ calls = 2
  /\ \E h \in Hits(1) :
       /\ h + 1 \in DOMAIN dictionary
       /\ Occurrences(dictionary[h + 1], proc[1].in) >= 2

\* C5: every call made after other calls on the same Matcher returns what the
\* same call returns on a new Matcher for the same dictionary.
C5_Independent == Returned(1) => proc[1].hits = MatchAlone(proc[1].in)

\* C5 witness: the second call has returned a report, and a node reported by
\* the first call still carries the first call's counter.
C5_Witness ==
  /\ Returned(1) /\ variant = "ptr" /\ calls = 2
  /\ proc[1].hits # <<>>
  /\ \E g \in DOMAIN nodes : ncounter[g] = 1
  /\ \E g \in DOMAIN nodes : ncounter[g] = 2

\* C6: mark-set variant, two calls with interleaved steps: each returns what
\* it returns alone, and no step writes the Matcher, its table or a node.
C6_Concurrent ==
  /\ [](\A p \in Procs : Returned(p) => proc[p].hits = MatchAlone(proc[p].in))
  /\ [][UNCHANGED <<dictionary, nodes, counter, ncounter>>]_vars

\* C6 witness: both calls are under way at once, each with reports made.
C6_Witness ==
  /\ proc[1].pc = "walk" /\ proc[1].marks # {}
  /\ proc[2].pc = "chk" /\ proc[2].marks # {}
  /\ proc[1].in # proc[2].in

\* C7: an empty pattern at index i of the dictionary is reported by every
\* call, whatever the input.
C7_EmptyPattern ==
  Returned(1)
    => \A i \in DOMAIN dictionary : dictionary[i] = <<>> => (i - 1) \in Hits(1)

\* C8: a (non-empty) byte sequence that is in the dictionary at two indices
\* and occurs in the input is reported under both indices.
C8_Duplicates ==
  Returned(1)
    => \A i, j \in DOMAIN dictionary :
         (/\ i # j /\ dictionary[i] = dictionary[j] /\ dictionary[i] # <<>>
          /\ IsSubstring(dictionary[i], proc[1].in))
           => ((i - 1) \in Hits(1) /\ (j - 1) \in Hits(1))

\* C9: mark-set variant: between two input bytes the current node is the node
\* of the longest suffix of the input consumed so far that is a trie path.
C9_LongestSuffix ==
  (variant = "tbl" /\ proc[1].pc = "loop")
    => LET consumed == SubSeq(proc[1].in, 1, proc[1].pos)
           cur == nodes[proc[1].n].b
       IN /\ IsSuffix(cur, consumed)
          /\ \A k \in (Len(cur) + 1) .. Len(consumed) :
               ~IsTriePath(SubSeq(consumed, Len(consumed) - k + 1, Len(consumed)))

\* C10 as stated: at every point of a call, a node marked as reported has
\* every non-root node of its suffix chain marked as reported.
C10_ChainEverywhere ==
  (proc[1].pc \in {"loop", "chk", "mark", "walk", "wmark"})
    => \A g \in DOMAIN nodes : Reported(1, g) => ChainReported(1, g)

\* C10 amended: the same between two input bytes (the walk of the byte just
\* consumed is over); and when the walk is about to stop at a node already
\* reported, every non-root node of that node's chain is reported.
C10_ChainBetweenBytes ==
  /\ proc[1].pc = "loop"
       => \A g \in DOMAIN nodes : Reported(1, g) => ChainReported(1, g)
  /\ proc[1].pc = "walk"
       => LET s == nodes[proc[1].f].suffix
          IN (s # 1 /\ Reported(1, s)) => ChainReported(1, s)

\* C10 witness: the walk is about to stop at a reported node whose own chain
\* is not empty.
C10_Witness ==
  /\ proc[1].pc = "walk"
  /\ LET s == nodes[proc[1].f].suffix
     IN s # 1 /\ Reported(1, s) /\ SuffixChain(s) # {}

\* q is a pattern of the dictionary.
IsPattern(q) == \E i \in DOMAIN dictionary : dictionary[i] = q

\* The suffix of node g is the root or an output node; its path is a strictly
\* shorter suffix of the path of g, and no longer strict suffix of the path
\* of g is a pattern.
SuffixIsLongestPattern(g) ==
  LET s == nodes[g].suffix
      b == nodes[g].b
  IN /\ s \in DOMAIN nodes
     /\ Len(nodes[s].b) < Len(b)
     /\ IsSuffix(nodes[s].b, b)
     /\ s # 1 => (nodes[s].output /\ IsPattern(nodes[s].b))
     /\ \A k \in (Len(nodes[s].b) + 1) .. (Len(b) - 1) :
          ~IsPattern(SubSeq(b, Len(b) - k + 1, Len(b)))

\* Following suffix from node g reaches the root within k steps.
RECURSIVE ReachesRoot(_, _)
ReachesRoot(g, k) ==
  IF g = 1 THEN TRUE
  ELSE IF k = 0 \/ g \notin DOMAIN nodes THEN FALSE
  ELSE ReachesRoot(nodes[g].suffix, k - 1)

\* C11: after buildTrie the suffix of every non-root node is the root or the
\* output node of the longest strict suffix of its path that is a pattern;
\* the suffix chain of every node reaches the root without a cycle; and every
\* turn of the chain walk of Match moves to a node of a strictly shorter
\* path, so the walk ends.
C11_WellFounded ==
  /\ [](\A g \in DOMAIN nodes :
          /\ g # 1 => SuffixIsLongestPattern(g)
          /\ ReachesRoot(g, Len(nodes)))
  /\ [][(proc[1].pc = "walk" /\ proc'[1].pc \in {"walk", "wmark"})
          => /\ proc'[1].f = nodes[proc[1].f].suffix
             /\ Len(nodes[proc'[1].f].b) < Len(nodes[proc[1].f].b)]_vars

\* C11 witness: the walk has taken two turns along a chain of two output
\* nodes below the node reached.
C11_Witness ==
  /\ proc[1].pc = "walk" /\ proc[1].f # 1 /\ proc[1].f # proc[1].n
  /\ nodes[nodes[proc[1].n].suffix].suffix = proc[1].f
  /\ nodes[proc[1].n].suffix # proc[1].f

\* C12: pointer variant, two calls with interleaved steps: each call returns
\* what it returns alone (no index missing, none reported twice).
C12_Interleaved ==
  \A p \in Procs : Returned(p) => proc[p].hits = MatchAlone(proc[p].in)

====
